---- MODULE Spec2Model ----
(***************************************************************************)
(* Model of the accordion of src/accordion/accordion.directive.ts:         *)
(* NgbAccordionDirective (the container), NgbAccordionItem (one panel),    *)
(* NgbAccordionToggle (the click affordance), NgbAccordionBody (the body   *)
(* template) and the NgbCollapse region every item drives.                 *)
(*                                                                         *)
(* Every method is a pure operator over a record                           *)
(*    s = [items, trace, raised]                                           *)
(* items  : the QueryList _items, in declaration order                    *)
(* trace  : the steps the running call has issued so far, in order        *)
(* raised : TRUE once the call has thrown                                  *)
(* and every action applies one method to the current state as a whole.   *)
(***************************************************************************)
EXTENDS Integers, Sequences, FiniteSets, TLC

VARIABLES
    items,        \* NgbAccordionDirective._items: Seq of item records
    animation,    \* NgbAccordionDirective.animation
    closeOthers,  \* NgbAccordionDirective.closeOthers
    destroyOnHide,\* NgbAccordionDirective.destroyOnHide
    nextId,       \* the module-level counter nextId
    detached,     \* destroyed items whose region may still report a completion
    call          \* the last call made: what it was, what it saw, what it did

vars == <<items, animation, closeOthers, destroyOnHide, nextId, detached, call>>

(***************************** bounds **************************************)
\* The most items ever constructed, hence the largest collection.
MaxCreated == 2

\* The most items ever constructed while animations are followed.
MaxAnimated == 1

\* Explicit ids an item may be given; duplicates are possible.
Ids == {"A", "B", "C"}

\* An id no item ever has.
NoSuchId == "Z"

\* The ids container methods are called with.
CallIds == Ids \cup {NoSuchId}

(***************************** small helpers *******************************)
BoolStr(b) == IF b THEN "true" ELSE "false"

Step(name, i, arg) == [step |-> name, item |-> i, arg |-> arg]

Emit(s, name, i, arg) == [s EXCEPT !.trace = Append(@, Step(name, i, arg))]

\* `ngb-accordion-item-${nextId++}`
AutoId(n) ==
    CASE n = 0 -> "ngb-accordion-item-0"
      [] n = 1 -> "ngb-accordion-item-1"
      [] n = 2 -> "ngb-accordion-item-2"
      [] n = 3 -> "ngb-accordion-item-3"
      [] n = 4 -> "ngb-accordion-item-4"
      [] OTHER -> "ngb-accordion-item-n"

(***************************** NgbAccordionItem ****************************)
\* Field initialisers of NgbAccordionItem and of its NgbCollapse region.
\* running: the completion ("shown", "hidden") the region's running
\* transition will report, "none" when no transition runs; interrupted: the
\* completions of transitions a later one interrupted before they reported.
NewItem(n, accDestroyOnHide) ==
    [ id                    |-> AutoId(n),
      collapsed             |-> TRUE,
      disabled              |-> FALSE,
      destroyOnHide         |-> accDestroyOnHide,
      animatingBodyCollapse |-> FALSE,
      subscribed            |-> FALSE,
      ngbCollapse           |-> [animation |-> FALSE, collapsed |-> TRUE,
                                 running |-> "none", interrupted |-> {}] ]

\* @Input('ngbAccordionItem') set id
setId(item, inputId) ==
    IF inputId # "" THEN [item EXCEPT !.id = inputId] ELSE item

\* @Input() set disabled
setDisabled(item, isDisabled) ==
    IF isDisabled # item.disabled THEN [item EXCEPT !.disabled = isDisabled] ELSE item

\* The hidden subscription telling the accordion before the item.
onHidden_accordionFirst(s, i) ==
    LET s1 == Emit([s EXCEPT !.items[i].animatingBodyCollapse = FALSE],
                   "animatingBodyCollapse", i, "false")
        s2 == Emit(s1, "accordion.hidden", i, s1.items[i].id)
    IN  Emit(s2, "item.hidden", i, "")

\* ngbCollapse.hidden.subscribe(...)
onHidden(s, i) ==
    LET s1 == Emit([s EXCEPT !.items[i].animatingBodyCollapse = FALSE],
                   "animatingBodyCollapse", i, "false")
        s2 == Emit(s1, "item.hidden", i, "")
    IN  Emit(s2, "accordion.hidden", i, s2.items[i].id)

\* ngbCollapse.shown.subscribe(...)
onShown(s, i) ==
    LET s1 == Emit(s, "item.shown", i, "")
    IN  Emit(s1, "accordion.shown", i, s1.items[i].id)

\* The region reports a completion: its subscribers, if any, run.
regionCompletes(s, i, ev) ==
    IF ~s.items[i].subscribed THEN s
    ELSE IF ev = "hidden" THEN onHidden(s, i) ELSE onShown(s, i)

\* The completions the region of an item may still report.
InFlight(item) ==
    (IF item.ngbCollapse.running = "none" THEN {} ELSE {item.ngbCollapse.running})
        \cup item.ngbCollapse.interrupted

\* NgbCollapse: assigning `collapsed` a new value starts a transition, which
\* interrupts the one that runs; with the animation flag off its completion
\* is reported at once, with it on the completion is reported by a later
\* callback.
regionSetCollapsed(s, i, c) ==
    LET r  == s.items[i].ngbCollapse
        ev == IF c THEN "hidden" ELSE "shown"
    IN  IF r.collapsed = c THEN s
        ELSE LET s1 == [s EXCEPT !.items[i].ngbCollapse.collapsed = c,
                                 !.items[i].ngbCollapse.interrupted =
                                     InFlight(s.items[i]),
                                 !.items[i].ngbCollapse.running = "none"]
             IN  IF r.animation
                 THEN [s1 EXCEPT !.items[i].ngbCollapse.running = ev]
                 ELSE regionCompletes(s1, i, ev)

\* The collapsed setter driving the region before the body is rendered.
setCollapsed_driveFirst(s, i, collapsed, anim) ==
    IF s.items[i].collapsed # collapsed
    THEN LET s1 == Emit([s EXCEPT !.items[i].collapsed = collapsed],
                        "collapsed", i, BoolStr(collapsed))
             s2 == Emit(s1, "markForCheck", i, "")
             s3 == Emit([s2 EXCEPT !.items[i].ngbCollapse.animation = anim],
                        "ngbCollapse.animation", i, BoolStr(anim))
             s4 == regionSetCollapsed(
                       Emit(s3, "ngbCollapse.collapsed", i, BoolStr(collapsed)),
                       i, collapsed)
         IN  IF ~collapsed
             THEN Emit(Emit([s4 EXCEPT !.items[i].animatingBodyCollapse = TRUE],
                            "animatingBodyCollapse", i, "true"),
                       "detectChanges", i, "")
             ELSE s4
    ELSE s

\* The collapsed setter without its `this.collapsed !== collapsed` guard.
setCollapsed_unguarded(s, i, collapsed, anim) ==
    LET s1 == Emit([s EXCEPT !.items[i].collapsed = collapsed],
                   "collapsed", i, BoolStr(collapsed))
        s2 == Emit(s1, "markForCheck", i, "")
        s3 == IF ~s2.items[i].collapsed
              THEN Emit(Emit([s2 EXCEPT !.items[i].animatingBodyCollapse = TRUE],
                             "animatingBodyCollapse", i, "true"),
                        "detectChanges", i, "")
              ELSE s2
        s4 == Emit([s3 EXCEPT !.items[i].ngbCollapse.animation = anim],
                   "ngbCollapse.animation", i, BoolStr(anim))
        s5 == Emit(s4, "ngbCollapse.collapsed", i, BoolStr(collapsed))
    IN  regionSetCollapsed(s5, i, collapsed)

\* @Input() set collapsed
setCollapsed(s, i, collapsed, anim) ==
    IF s.items[i].collapsed # collapsed
    THEN LET s1 == Emit([s EXCEPT !.items[i].collapsed = collapsed],
                        "collapsed", i, BoolStr(collapsed))
             s2 == Emit(s1, "markForCheck", i, "")
             s3 == IF ~s2.items[i].collapsed
                   THEN Emit(Emit([s2 EXCEPT !.items[i].animatingBodyCollapse = TRUE],
                                  "animatingBodyCollapse", i, "true"),
                             "detectChanges", i, "")
                   ELSE s2
             s4 == Emit([s3 EXCEPT !.items[i].ngbCollapse.animation = anim],
                        "ngbCollapse.animation", i, BoolStr(anim))
             s5 == Emit(s4, "ngbCollapse.collapsed", i, BoolStr(collapsed))
         IN  regionSetCollapsed(s5, i, collapsed)
    ELSE s

\* NgbAccordionItem.toggle()
itemToggle(s, i, anim) == setCollapsed(s, i, ~s.items[i].collapsed, anim)

\* ngAfterContentInit()
ngAfterContentInit(s, i, anim) ==
    LET s1 == Emit([s EXCEPT !.items[i].ngbCollapse.animation = FALSE],
                   "ngbCollapse.animation", i, "false")
        s2 == regionSetCollapsed(
                  Emit(s1, "ngbCollapse.collapsed", i, BoolStr(s1.items[i].collapsed)),
                  i, s1.items[i].collapsed)
        s3 == Emit([s2 EXCEPT !.items[i].ngbCollapse.animation = anim],
                   "ngbCollapse.animation", i, BoolStr(anim))
    IN  Emit([s3 EXCEPT !.items[i].subscribed = TRUE], "subscribe", i, "")

\* ngOnDestroy() that leaves the subscriptions in place.
ngOnDestroy_keepSubscriptions(s, i) == Emit(s, "unsubscribe", i, "")

\* ngOnDestroy()
ngOnDestroy(s, i) ==
    Emit([s EXCEPT !.items[i].subscribed = FALSE], "unsubscribe", i, "")

\* NgbAccordionBody.template(): TRUE when the body template is rendered.
template(item) == item.destroyOnHide = FALSE \/ item.animatingBodyCollapse

(***************************** NgbAccordionDirective ***********************)
\* _getItem that falls back to the last item when no id matches.
getItem_orLast(its, itemId) ==
    LET hits == {i \in DOMAIN its : its[i].id = itemId}
    IN  IF hits = {} THEN Len(its) ELSE CHOOSE i \in hits : \A j \in hits : i <= j

\* _getItem: the index of the first item with that id, 0 when there is none.
getItem(its, itemId) ==
    LET hits == {i \in DOMAIN its : its[i].id = itemId}
    IN  IF hits = {} THEN 0 ELSE CHOOSE i \in hits : \A j \in hits : i <= j

RECURSIVE toggleEach(_, _, _, _, _, _)
\* the forEach of toggle(), from item k on
toggleEach(s, k, toToggle, oldStateCollapsed, co, anim) ==
    IF k > Len(s.items) THEN s
    ELSE LET s1 == IF k = toToggle THEN itemToggle(s, k, anim)
                   ELSE IF co /\ oldStateCollapsed THEN setCollapsed(s, k, TRUE, anim)
                   ELSE s
         IN  toggleEach(s1, k + 1, toToggle, oldStateCollapsed, co, anim)

RECURSIVE toggleEachDown(_, _, _, _, _, _)
\* the forEach of toggle() walking the items last to first, from item k down
toggleEachDown(s, k, toToggle, oldStateCollapsed, co, anim) ==
    IF k < 1 THEN s
    ELSE LET s1 == IF k = toToggle THEN itemToggle(s, k, anim)
                   ELSE IF co /\ oldStateCollapsed THEN setCollapsed(s, k, TRUE, anim)
                   ELSE s
         IN  toggleEachDown(s1, k - 1, toToggle, oldStateCollapsed, co, anim)

\* toggle() whose forEach runs against declaration order.
toggle_lastFirst(s, itemId, co, anim) ==
    LET toToggle == getItem(s.items, itemId)
    IN  IF toToggle # 0
        THEN toggleEachDown(s, Len(s.items), toToggle, s.items[toToggle].collapsed,
                            co, anim)
        ELSE s

\* toggle() that never collapses the siblings.
toggle_keepOthers(s, itemId, co, anim) ==
    LET toToggle == getItem(s.items, itemId)
    IN  IF toToggle # 0
        THEN toggleEach(s, 1, toToggle, s.items[toToggle].collapsed, FALSE, anim)
        ELSE s

\* toggle() that collapses the siblings also when it closes the target.
toggle_closeAlways(s, itemId, co, anim) ==
    LET toToggle == getItem(s.items, itemId)
    IN  IF toToggle # 0
        THEN toggleEach(s, 1, toToggle, TRUE, co, anim)
        ELSE s

\* toggle() that does what its doc comment says of a disabled panel.
toggle_respectDisabled(s, itemId, co, anim) ==
    LET toToggle == getItem(s.items, itemId)
    IN  IF toToggle # 0 /\ ~s.items[toToggle].disabled
        THEN toggleEach(s, 1, toToggle, s.items[toToggle].collapsed, co, anim)
        ELSE s

\* toggle(itemId)
toggle(s, itemId, co, anim) ==
    LET toToggle == getItem(s.items, itemId)
    IN  IF toToggle # 0
        THEN toggleEach(s, 1, toToggle, s.items[toToggle].collapsed, co, anim)
        ELSE s

RECURSIVE expandEach(_, _, _, _, _)
\* the forEach of expand(), from item k on
expandEach(s, k, toExpand, co, anim) ==
    IF k > Len(s.items) THEN s
    ELSE LET s1 == IF k = toExpand THEN setCollapsed(s, toExpand, FALSE, anim)
                   ELSE IF co THEN setCollapsed(s, k, TRUE, anim)
                   ELSE s
         IN  expandEach(s1, k + 1, toExpand, co, anim)

\* expand() that leaves the siblings alone.
expand_keepOthers(s, itemId, co, anim) ==
    LET toExpand == getItem(s.items, itemId)
    IN  IF toExpand # 0 THEN expandEach(s, 1, toExpand, FALSE, anim) ELSE s

\* expand(itemId)
expand(s, itemId, co, anim) ==
    LET toExpand == getItem(s.items, itemId)
    IN  IF toExpand # 0 THEN expandEach(s, 1, toExpand, co, anim) ELSE s

RECURSIVE expandAllEach(_, _, _)
\* the forEach of expandAll(), from item k on
expandAllEach(s, k, anim) ==
    IF k > Len(s.items) THEN s
    ELSE expandAllEach(setCollapsed(s, k, FALSE, anim), k + 1, anim)

\* expandAll() that expands every item whatever closeOthers says.
expandAll_everyItem(s, co, anim) == expandAllEach(s, 1, anim)

\* expandAll(); _items.get(0) of an empty list is undefined, and assigning a
\* property of undefined throws a TypeError.
expandAll(s, co, anim) ==
    IF co
    THEN IF ~(\E i \in DOMAIN s.items : ~s.items[i].collapsed)
         THEN IF Len(s.items) = 0
              THEN [s EXCEPT !.raised = TRUE]
              ELSE setCollapsed(s, 1, FALSE, anim)
         ELSE s
    ELSE expandAllEach(s, 1, anim)

\* collapse(itemId)
collapse(s, itemId, anim) ==
    LET toCollapse == getItem(s.items, itemId)
    IN  IF toCollapse # 0 THEN setCollapsed(s, toCollapse, TRUE, anim) ELSE s

RECURSIVE collapseAllEach(_, _, _)
\* the forEach of collapseAll(), from item k on
collapseAllEach(s, k, anim) ==
    IF k > Len(s.items) THEN s
    ELSE collapseAllEach(setCollapsed(s, k, TRUE, anim), k + 1, anim)

\* collapseAll() that stops after the first item.
collapseAll_firstOnly(s, anim) ==
    IF Len(s.items) = 0 THEN s ELSE setCollapsed(s, 1, TRUE, anim)

\* collapseAll()
collapseAll(s, anim) == collapseAllEach(s, 1, anim)

\* isExpanded() that answers for any item with that id, not the first.
isExpanded_anyMatch(its, panelId) ==
    \E i \in DOMAIN its : its[i].id = panelId /\ ~its[i].collapsed

\* isExpanded(panelId)
isExpanded(its, panelId) ==
    LET item == getItem(its, panelId)
    IN  IF item # 0 THEN ~its[item].collapsed ELSE FALSE

\* NgbAccordionToggle, '(click)': '!item.disabled && accordion.toggle(item.id)'
click(s, i, co, anim) ==
    IF ~s.items[i].disabled THEN toggle(s, s.items[i].id, co, anim) ELSE s

(***************************** the state machine ****************************)
Start(its) == [items |-> its, trace |-> <<>>, raised |-> FALSE]

Flags(its) == [k \in DOMAIN its |-> its[k].collapsed]

\* What `call` records of a call: the operation and its argument, the item it
\* resolved to (0: none), the collapsed flags as the call found them, the
\* steps it issued, whether it threw and what it returned.
Called(op, arg, target, s, ret) ==
    [ op |-> op, arg |-> arg, target |-> target, pre |-> Flags(items),
      trace |-> s.trace, raised |-> s.raised, ret |-> ret ]

Config == <<animation, closeOthers, destroyOnHide, nextId, detached>>

\* A method ran to its end (or threw) on the current collection.
Ran(op, arg, target, s) ==
    /\ items' = s.items
    /\ call' = Called(op, arg, target, s, FALSE)
    /\ UNCHANGED Config

Toggle(itemId) ==
    Ran("toggle", itemId, getItem(items, itemId),
        toggle(Start(items), itemId, closeOthers, animation))

Expand(itemId) ==
    Ran("expand", itemId, getItem(items, itemId),
        expand(Start(items), itemId, closeOthers, animation))

Collapse(itemId) ==
    Ran("collapse", itemId, getItem(items, itemId),
        collapse(Start(items), itemId, animation))

ExpandAll == Ran("expandAll", "", 0, expandAll(Start(items), closeOthers, animation))

CollapseAll == Ran("collapseAll", "", 0, collapseAll(Start(items), animation))

IsExpanded(panelId) ==
    /\ call' = Called("isExpanded", panelId, getItem(items, panelId), Start(items),
                      isExpanded(items, panelId))
    /\ UNCHANGED <<items, Config>>

\* A click on the toggle element of item i.
Click(i) == Ran("click", items[i].id, i, click(Start(items), i, closeOthers, animation))

\* item.toggle() called on item i directly.
ItemToggle(i) == Ran("item.toggle", items[i].id, i, itemToggle(Start(items), i, animation))

\* item.collapsed = c assigned directly (or through its input binding).
ItemSetCollapsed(i, c) ==
    Ran("item.collapsed", BoolStr(c), i, setCollapsed(Start(items), i, c, animation))

\* item.disabled = d
ItemSetDisabled(i, d) ==
    /\ items' = [items EXCEPT ![i] = setDisabled(@, d)]
    /\ call' = Called("item.disabled", BoolStr(d), i, Start(items), FALSE)
    /\ UNCHANGED Config

SetCloseOthers(b) ==
    /\ closeOthers' = b
    /\ call' = Called("closeOthers", BoolStr(b), 0, Start(items), FALSE)
    /\ UNCHANGED <<items, animation, destroyOnHide, nextId, detached>>

SetAnimation(b) ==
    /\ animation' = b
    /\ call' = Called("animation", BoolStr(b), 0, Start(items), FALSE)
    /\ UNCHANGED <<items, closeOthers, destroyOnHide, nextId, detached>>

\* The region of item i reports the completion ev of its running transition.
Deliver(i, ev) ==
    /\ ev = items[i].ngbCollapse.running
    /\ Ran(ev, items[i].id, i,
           regionCompletes(
               Start([items EXCEPT ![i].ngbCollapse.running = "none"]), i, ev))

\* A transition that a later one has interrupted may still report, or may
\* never: which, is the region's own business.
DeliverLate(i, ev) ==
    /\ ev \in items[i].ngbCollapse.interrupted
    /\ Ran(ev, "late", i,
           regionCompletes(
               Start([items EXCEPT ![i].ngbCollapse.interrupted = @ \ {ev}]), i, ev))

Drop(i, ev) ==
    /\ ev \in items[i].ngbCollapse.interrupted
    /\ items' = [items EXCEPT ![i].ngbCollapse.interrupted = @ \ {ev}]
    /\ call' = Called("drop", ev, i, Start(items), FALSE)
    /\ UNCHANGED Config

\* The surrounding UI adds an item at the end of the collection: it is
\* constructed, its inputs are bound, and ngAfterContentInit runs.
Built(inputId, isCollapsed, isDisabled, doh) ==
    LET fresh == [setDisabled(setId(NewItem(nextId, destroyOnHide), inputId), isDisabled)
                     EXCEPT !.destroyOnHide = doh]
        i     == Len(items) + 1
        s1    == setCollapsed(Start(Append(items, fresh)), i, isCollapsed, animation)
    IN  ngAfterContentInit(s1, i, animation)

AddItem(inputId, isCollapsed, isDisabled, doh) ==
    /\ nextId < MaxCreated
    /\ items' = Built(inputId, isCollapsed, isDisabled, doh).items
    /\ nextId' = nextId + 1
    /\ call' = Called("add", inputId, Len(items) + 1,
                      Built(inputId, isCollapsed, isDisabled, doh), FALSE)
    /\ UNCHANGED <<animation, closeOthers, destroyOnHide, detached>>

Without(its, i) == [k \in 1 .. Len(its) - 1 |-> IF k < i THEN its[k] ELSE its[k + 1]]

\* The surrounding UI removes item i: ngOnDestroy runs and the collection
\* no longer holds it.
RemoveItem(i) ==
    LET s == ngOnDestroy(Start(items), i)
    IN  /\ items' = Without(s.items, i)
        /\ detached' = IF InFlight(s.items[i]) = {} THEN detached
                       ELSE detached \cup {s.items[i]}
        /\ call' = Called("remove", items[i].id, i, s, FALSE)
        /\ UNCHANGED <<animation, closeOthers, destroyOnHide, nextId>>

\* The region of a destroyed item reports a completion, of its running
\* transition or of an interrupted one.
Reporting(item, ev) ==
    IF ev = item.ngbCollapse.running
    THEN [item EXCEPT !.ngbCollapse.running = "none"]
    ELSE [item EXCEPT !.ngbCollapse.interrupted = @ \ {ev}]

DeliverDetached(item, ev) ==
    LET s == regionCompletes(Start(<<Reporting(item, ev)>>), 1, ev)
    IN  /\ ev \in InFlight(item)
        /\ detached' = (detached \ {item}) \cup
                           (IF InFlight(s.items[1]) = {} THEN {} ELSE {s.items[1]})
        /\ call' = Called("detached", ev, 0, s, FALSE)
        /\ UNCHANGED <<items, animation, closeOthers, destroyOnHide, nextId>>

NoCall == [ op |-> "init", arg |-> "", target |-> 0, pre |-> <<>>,
            trace |-> <<>>, raised |-> FALSE, ret |-> FALSE ]

Init ==
    /\ items = <<>>
    /\ animation \in BOOLEAN
    /\ closeOthers \in BOOLEAN
    /\ destroyOnHide \in BOOLEAN
    /\ nextId = 0
    /\ detached = {}
    /\ call = NoCall

\* The container's methods that change items.
ContainerMutation ==
    \/ \E id \in CallIds : Toggle(id)
    \/ \E id \in CallIds : Expand(id)
    \/ \E id \in CallIds : Collapse(id)
    \/ ExpandAll
    \/ CollapseAll

\* The container's public methods.
ContainerCall ==
    \/ ContainerMutation
    \/ \E id \in CallIds : IsExpanded(id)

Next ==
    \/ ContainerCall
    \/ \E i \in DOMAIN items : Click(i)
    \/ \E i \in DOMAIN items : ItemToggle(i)
    \/ \E i \in DOMAIN items, c \in BOOLEAN : ItemSetCollapsed(i, c)
    \/ \E i \in DOMAIN items, d \in BOOLEAN : ItemSetDisabled(i, d)
    \/ \E b \in BOOLEAN : SetCloseOthers(b)
    \/ \E b \in BOOLEAN : SetAnimation(b)
    \/ \E i \in DOMAIN items, ev \in {"shown", "hidden"} : Deliver(i, ev)
    \/ \E i \in DOMAIN items, ev \in {"shown", "hidden"} : DeliverLate(i, ev)
    \/ \E i \in DOMAIN items, ev \in {"shown", "hidden"} : Drop(i, ev)
    \/ \E id \in Ids \cup {""}, c \in BOOLEAN, d \in BOOLEAN, doh \in BOOLEAN :
           AddItem(id, c, d, doh)
    \/ \E i \in DOMAIN items : RemoveItem(i)
    \/ \E item \in detached, ev \in {"shown", "hidden"} : DeliverDetached(item, ev)

\* The whole accordion, every input and every callback.
Spec == Init /\ [][Next]_vars

(***************************************************************************)
(* The accordion as its API drives it, animations off (the region reports  *)
(* every completion at once): items with explicit ids are added, removed,  *)
(* clicked and driven through the container and directly.                  *)
(***************************************************************************)
InitApi == Init /\ animation = FALSE /\ destroyOnHide = TRUE

NextApi ==
    \/ ContainerCall
    \/ \E i \in DOMAIN items : Click(i)
    \/ \E i \in DOMAIN items : ItemToggle(i)
    \/ \E i \in DOMAIN items, c \in BOOLEAN : ItemSetCollapsed(i, c)
    \/ \E i \in DOMAIN items, d \in BOOLEAN : ItemSetDisabled(i, d)
    \/ \E b \in BOOLEAN : SetCloseOthers(b)
    \/ \E id \in Ids, c \in BOOLEAN, d \in BOOLEAN : AddItem(id, c, d, destroyOnHide)
    \/ \E i \in DOMAIN items : RemoveItem(i)

SpecApi == InitApi /\ [][NextApi]_vars

(***************************************************************************)
(* An accordion with closeOthers on whose items are all added collapsed    *)
(* and that is driven through the container's methods only, animations on  *)
(* or off, the regions reporting their completions whenever they like.     *)
(***************************************************************************)
InitContainer == Init /\ closeOthers = TRUE /\ destroyOnHide = TRUE

NextContainer ==
    \/ ContainerMutation
    \/ \E id \in Ids : AddItem(id, TRUE, FALSE, destroyOnHide)
    \/ \E i \in DOMAIN items, ev \in {"shown", "hidden"} : Deliver(i, ev)
    \/ \E i \in DOMAIN items, ev \in {"shown", "hidden"} : DeliverLate(i, ev)
    \/ \E i \in DOMAIN items, ev \in {"shown", "hidden"} : Drop(i, ev)

SpecContainer == InitContainer /\ [][NextContainer]_vars

(***************************************************************************)
(* The accordion with its animations: items with generated ids are added   *)
(* (collapsed or expanded, keeping or destroying their body), clicked,     *)
(* assigned, expanded and collapsed together, and removed, while the       *)
(* animation setting changes and the regions report their completions      *)
(* whenever they like, also after their item is gone.                      *)
(***************************************************************************)
InitAnim == Init /\ destroyOnHide = TRUE

NextAnim ==
    \/ ExpandAll
    \/ CollapseAll
    \/ \E i \in DOMAIN items : Click(i)
    \/ \E i \in DOMAIN items, c \in BOOLEAN : ItemSetCollapsed(i, c)
    \/ \E b \in BOOLEAN : SetAnimation(b)
    \/ \E i \in DOMAIN items, ev \in {"shown", "hidden"} : Deliver(i, ev)
    \/ \E i \in DOMAIN items, ev \in {"shown", "hidden"} : DeliverLate(i, ev)
    \/ \E i \in DOMAIN items, ev \in {"shown", "hidden"} : Drop(i, ev)
    \/ \E c \in BOOLEAN, doh \in BOOLEAN :
           nextId < MaxAnimated /\ AddItem("", c, FALSE, doh)
    \/ \E i \in DOMAIN items : RemoveItem(i)
    \/ \E item \in detached, ev \in {"shown", "hidden"} : DeliverDetached(item, ev)

SpecAnim == InitAnim /\ [][NextAnim]_vars

(***************************** the claims ***********************************)
Expanded(its) == {i \in DOMAIN its : ~its[i].collapsed}

Others(t) == DOMAIN items \ {t}

\* The last call was container method op and resolved to an item.
Hit(op) == call.op = op /\ call.target # 0

\* C1: with closeOthers on and every item added collapsed, after any sequence
\* of container toggle/expand/collapse/expandAll/collapseAll calls at most
\* one item has collapsed = false.
C1_AtMostOneExpanded == Cardinality(Expanded(items)) <= 1

\* C1 witness: an expand() opened one item and closed the sibling that was open.
C1_Witness ==
    /\ Hit("expand")
    /\ ~items[call.target].collapsed
    /\ \E j \in Others(call.target) : ~call.pre[j] /\ items[j].collapsed

\* C2: whenever closeOthers is true at most one item has collapsed = false,
\* however the state was reached (items bound expanded, item.toggle(),
\* item.collapsed assigned, closeOthers changed, items added).
C2_CloseOthersAtMostOne == closeOthers => Cardinality(Expanded(items)) <= 1

\* C3: toggle(id) on an expanded item with closeOthers on collapses it and
\* leaves every other item's collapsed flag as it was.
C3_ToggleExpandedOnlyCloses ==
    (Hit("toggle") /\ closeOthers /\ ~call.pre[call.target]) =>
        /\ items[call.target].collapsed
        /\ \A j \in Others(call.target) : items[j].collapsed = call.pre[j]

\* C3 witness: such a toggle closed its target while a sibling stayed open.
C3_Witness ==
    /\ Hit("toggle") /\ closeOthers /\ ~call.pre[call.target]
    /\ items[call.target].collapsed
    /\ \E j \in Others(call.target) : ~items[j].collapsed

\* C4: toggle(id) on an existing item: with closeOthers on and the target
\* collapsed, the target ends expanded and every other item collapsed; with
\* closeOthers off the target's flag is inverted and the others keep theirs.
C4_Toggle ==
    Hit("toggle") =>
        /\ (closeOthers /\ call.pre[call.target]) =>
              /\ ~items[call.target].collapsed
              /\ \A j \in Others(call.target) : items[j].collapsed
        /\ ~closeOthers =>
              /\ items[call.target].collapsed = ~call.pre[call.target]
              /\ \A j \in Others(call.target) : items[j].collapsed = call.pre[j]

\* C4 witness: a toggle with closeOthers on opened its target and closed a
\* sibling that was open.
C4_Witness ==
    /\ Hit("toggle") /\ closeOthers /\ call.pre[call.target]
    /\ ~items[call.target].collapsed
    /\ \E j \in Others(call.target) : ~call.pre[j] /\ items[j].collapsed

\* C5: expand(id) on an existing item leaves the target expanded; with
\* closeOthers on every other item ends collapsed, with closeOthers off
\* every other item keeps its flag.
C5_Expand ==
    Hit("expand") =>
        /\ ~items[call.target].collapsed
        /\ closeOthers => \A j \in Others(call.target) : items[j].collapsed
        /\ ~closeOthers =>
              \A j \in Others(call.target) : items[j].collapsed = call.pre[j]

\* C5 witness: an expand with closeOthers on, on a target that was already
\* expanded, closed a sibling that was open too.
C5_Witness ==
    /\ Hit("expand") /\ closeOthers /\ ~call.pre[call.target]
    /\ \E j \in Others(call.target) : ~call.pre[j] /\ items[j].collapsed

\* C6: expandAll() with closeOthers on expands exactly the first item when
\* none is expanded and changes nothing when one is; with closeOthers off
\* every item ends expanded.
C6_ExpandAll ==
    call.op = "expandAll" =>
        IF closeOthers
        THEN IF \A i \in DOMAIN call.pre : call.pre[i]
             THEN Expanded(items) = {i \in DOMAIN items : i = 1}
             ELSE Flags(items) = call.pre /\ call.trace = <<>>
        ELSE Expanded(items) = DOMAIN items

\* C6 witness: expandAll() with closeOthers on opened the first of several
\* collapsed items.
C6_Witness ==
    /\ call.op = "expandAll" /\ closeOthers /\ Len(items) >= 2
    /\ \A i \in DOMAIN call.pre : call.pre[i]
    /\ Expanded(items) = {1}

\* C7: no container operation raises an error, on any collection (empty,
\* duplicate ids) under either closeOthers setting.
C7_NoCallRaises == ~call.raised

\* No item of the collection has that id.
NoMatch(its, id) == \A i \in DOMAIN its : its[i].id # id

\* C8: toggle/expand/collapse with an id that matches no item changes no
\* item (flags and animation bookkeeping), drives no region, emits no event
\* and raises nothing.
C8_UnknownIdNoOp ==
    [][(call'.op \in {"toggle", "expand", "collapse"} /\ NoMatch(items, call'.arg)) =>
          (items' = items /\ call'.trace = <<>> /\ ~call'.raised)]_vars

\* C8 witness: such a call was made on a collection with an expanded item
\* and another id.
C8_Witness ==
    /\ call.op \in {"toggle", "expand", "collapse"} /\ NoMatch(items, call.arg)
    /\ call.arg \in Ids
    /\ Expanded(items) # {}

\* C9: container toggle(id) has no effect when the panel with that id is
\* disabled.
C9_ToggleDisabledNoEffect ==
    (Hit("toggle") /\ items[call.target].disabled) => Flags(items) = call.pre

AllEnabled(its) == [k \in DOMAIN its |-> [its[k] EXCEPT !.disabled = FALSE]]

C11_CollapseAll ==
    call.op = "collapseAll" =>
        /\ \A i \in DOMAIN items : items[i].collapsed
        /\ \A i \in DOMAIN items : ~isExpanded(items, items[i].id)

\* C11 witness: collapseAll() closed two items that were open.
C11_Witness ==
    /\ call.op = "collapseAll" /\ Len(items) >= 2
    /\ \A i \in DOMAIN call.pre : ~call.pre[i]
    /\ \A i \in DOMAIN items : items[i].collapsed

\* C12 (as claimed): isExpanded(id) is true iff some item with that id
\* exists and has collapsed = false, and it changes nothing.
C12_IsExpandedAnyItem ==
    call.op = "isExpanded" =>
        /\ call.ret = (\E i \in DOMAIN items :
                          items[i].id = call.arg /\ ~items[i].collapsed)
        /\ Flags(items) = call.pre /\ call.trace = <<>>

\* C12 (amended): isExpanded(id) is true iff the first item with that id, in
\* declaration order, exists and has collapsed = false; it is false when no
\* item has that id, and it changes nothing.
C12_IsExpandedFirstItem ==
    call.op = "isExpanded" =>
        /\ call.ret = (\E i \in DOMAIN items :
                          /\ items[i].id = call.arg /\ ~items[i].collapsed
                          /\ \A j \in 1 .. i - 1 : items[j].id # call.arg)
        /\ NoMatch(items, call.arg) => ~call.ret
        /\ Flags(items) = call.pre /\ call.trace = <<>>

\* C12 witness: isExpanded(id) answered false for an id whose first item is
\* collapsed and whose second is expanded.
C12_Witness ==
    /\ call.op = "isExpanded" /\ ~call.ret /\ Len(items) >= 2
    /\ items[1].id = call.arg /\ items[1].collapsed
    /\ items[2].id = call.arg /\ ~items[2].collapsed

\* Where in the trace of the last call the setter of item i assigned
\* collapsed = c.
Assigned(i, c) ==
    {p \in DOMAIN call.trace :
        call.trace[p] = Step("collapsed", i, BoolStr(c))}

\* Where in the trace of the last call the region of item i was driven to c.
Driven(i, c) ==
    {p \in DOMAIN call.trace :
        call.trace[p] = Step("ngbCollapse.collapsed", i, BoolStr(c))}

\* The last call was a container toggle or expand that, with closeOthers
\* on, opened its target.
Opened ==
    /\ (Hit("toggle") \/ Hit("expand")) /\ closeOthers
    /\ Assigned(call.target, FALSE) # {}

\* C13 (as claimed): when toggle/expand with closeOthers opens an item and
\* collapses siblings, every sibling's collapse (assignment and drive) is
\* issued before the target's expand, wherever the target stands.
C13_SiblingsCollapseFirst ==
    Opened =>
        \A j \in Others(call.target) :
            \A p \in Assigned(j, TRUE) \cup Driven(j, TRUE) :
                \A q \in Assigned(call.target, FALSE) : p < q

\* C13 (amended): in that one pass the items are handled in declaration
\* order: the collapse of a sibling declared before the target is issued
\* before the target's expand, the collapse of one declared after it is
\* issued after the target's expand (assignment and drive).
C13_DeclarationOrder ==
    Opened =>
        \A j \in Others(call.target) :
            \A p \in Assigned(j, TRUE) \cup Driven(j, TRUE) :
                /\ j < call.target =>
                      \A q \in Assigned(call.target, FALSE) : p < q
                /\ j > call.target =>
                      \A q \in Driven(call.target, FALSE) : p > q

\* C13 witness: such a call opened the first item and closed the second.
C13_Witness ==
    /\ Opened /\ call.target = 1 /\ Len(items) >= 2
    /\ Assigned(2, TRUE) # {} /\ Driven(2, TRUE) # {}

\* The last call was the region of item call.target reporting ev.
Reported(ev) == call.op = ev /\ call.target # 0

HiddenSteps(i) ==
    << Step("animatingBodyCollapse", i, "false"), Step("item.hidden", i, ""),
       Step("accordion.hidden", i, items[i].id) >>

ShownSteps(i) ==
    << Step("item.shown", i, ""), Step("accordion.shown", i, items[i].id) >>

\* The steps p .. p + Len(steps) - 1 of the last call are `steps`.
TraceAt(p, steps) ==
    /\ p >= 1 /\ p + Len(steps) - 1 <= Len(call.trace)
    /\ \A k \in DOMAIN steps : call.trace[p + k - 1] = steps[k]

\* The region of item i was driven to c with its animation flag off, the
\* two steps before step p: its completion is reported at once.
CompletedAtOnce(p, i, c) ==
    p >= 3 /\ TraceAt(p - 2, << Step("ngbCollapse.animation", i, "false"),
                               Step("ngbCollapse.collapsed", i, BoolStr(c)) >>)

\* C15: a hidden-complete of a live item's region clears
\* animatingBodyCollapse, then emits one item-level hidden, then one
\* accordion-level hidden with the item's id; a shown-complete emits one
\* item-level shown, then one accordion-level shown with the item's id; and
\* every shown/hidden of the item or the accordion is one of these, issued
\* for a completion the region reported (later, or at once with the
\* animation off).
C15_EventsFollowCompletions ==
    /\ Reported("hidden") =>
          (call.trace = HiddenSteps(call.target)
              /\ ~items[call.target].animatingBodyCollapse)
    /\ Reported("shown") => call.trace = ShownSteps(call.target)
    /\ \A p \in DOMAIN call.trace :
          LET st == call.trace[p]
          IN  /\ st.step = "item.hidden" =>
                    /\ TraceAt(p - 1, HiddenSteps(st.item))
                    /\ Reported("hidden") \/ CompletedAtOnce(p - 1, st.item, TRUE)
              /\ st.step = "accordion.hidden" =>
                    TraceAt(p - 2, HiddenSteps(st.item))
              /\ st.step = "item.shown" =>
                    /\ TraceAt(p, ShownSteps(st.item))
                    /\ Reported("shown") \/ CompletedAtOnce(p, st.item, FALSE)
              /\ st.step = "accordion.shown" =>
                    TraceAt(p - 1, ShownSteps(st.item))

\* C15 witness: a hidden-complete arrived for a collapsed item and was
\* passed on.
C15_Witness ==
    /\ Reported("hidden") /\ items[call.target].collapsed
    /\ call.trace = HiddenSteps(call.target)

\* C16: when the setter takes collapsed from true to false it sets
\* animatingBodyCollapse and forces the render pass before it drives the
\* region, and sets the region's animation flag to the accordion's setting
\* before it changes the region's collapsed flag.
C16_ExpandOrder ==
    \A p \in DOMAIN call.trace :
        call.trace[p].step = "collapsed" /\ call.trace[p].arg = "false" =>
            LET i == call.trace[p].item
            IN  TraceAt(p + 1,
                    << Step("markForCheck", i, ""),
                       Step("animatingBodyCollapse", i, "true"),
                       Step("detectChanges", i, ""),
                       Step("ngbCollapse.animation", i, BoolStr(animation)),
                       Step("ngbCollapse.collapsed", i, "false") >>)

\* C16 witness: an item was expanded while the accordion was animated.
C16_Witness ==
    /\ call.op = "item.collapsed" /\ animation
    /\ Assigned(call.target, FALSE) # {}
    /\ items[call.target].ngbCollapse.running = "shown"

\* The value the region's animation flag had when step p was issued (FALSE,
\* the region's initial value, when no step before p assigned it).
FlagAt(p) ==
    LET set == {q \in 1 .. p - 1 : call.trace[q].step = "ngbCollapse.animation"}
    IN  IF set = {} THEN FALSE
        ELSE call.trace[CHOOSE q \in set : \A r \in set : r <= q].arg = "true"

\* C17: for every item the first application of its collapsed state to its
\* region is made with the region's animation flag false, also when the
\* collapsed input was bound false, and when initialisation has finished
\* the region's animation flag is the accordion's animation setting.
C17_FirstApplicationNotAnimated ==
    call.op = "add" =>
        /\ \A p \in DOMAIN call.trace :
              (call.trace[p].step = "ngbCollapse.collapsed"
                  /\ \A q \in 1 .. p - 1 :
                        call.trace[q].step # "ngbCollapse.collapsed")
              => ~FlagAt(p)
        /\ items[call.target].ngbCollapse.animation = animation

\* C18: after an item's ngOnDestroy a completion of its region, also of a
\* transition that was in flight at teardown, emits no item-level and no
\* accordion-level event and changes no item.
C18_NothingAfterDestroy ==
    [][call'.op = "detached" =>
          /\ call'.trace = <<>>
          /\ items' = items
          /\ \A d \in detached' : \E e \in detached :
                d = [e EXCEPT !.ngbCollapse.running = d.ngbCollapse.running,
                              !.ngbCollapse.interrupted = d.ngbCollapse.interrupted]
      ]_vars

\* C18 witness: the region of a destroyed item reported the hidden-complete
\* of the collapse that was in flight when the item went.
C18_Witness ==
    /\ call.op = "detached" /\ call.arg = "hidden" /\ call.trace = <<>>

\* C19: in every reachable state an item with collapsed = false has
\* animatingBodyCollapse = true: the body of an expanded item is mounted.
C19_ExpandedBodyMounted ==
    \A i \in DOMAIN items : ~items[i].collapsed => items[i].animatingBodyCollapse

\* C20: once ngAfterContentInit has run, after every operation the region's
\* collapsed flag is the item's; and assigning collapsed its current value
\* issues no step: no region is driven, so no shown/hidden comes of it.
C20_RegionFollowsItem ==
    /\ \A i \in DOMAIN items : items[i].ngbCollapse.collapsed = items[i].collapsed
    /\ (call.op = "item.collapsed" /\ call.arg = BoolStr(call.pre[call.target])) =>
          (call.trace = <<>> /\ Flags(items) = call.pre)

\* C20 witness: an expanded item was assigned collapsed = false.
C20_Witness ==
    /\ call.op = "item.collapsed" /\ call.arg = "false"
    /\ ~call.pre[call.target] /\ ~items[call.target].collapsed

====
